---- MODULE Spec2Model ----
(***************************************************************************)
(* Model of music_search_mcp: the HTTP request cache (request_cache.py),   *)
(* the cached fetcher gequbao_request (api_music_gequbao.py) and the       *)
(* search_music tool with its background upload worker (mcp_server.py,     *)
(* alist_storage.py).                                                      *)
(*                                                                         *)
(* Python strings are sequences of one-character strings, so that          *)
(* json.dumps, str.upper and "|".join are computed character by character. *)
(* Python values are tagged records: None, a str, or a dict whose items    *)
(* are kept in insertion order.                                            *)
(***************************************************************************)
EXTENDS Integers, Sequences, FiniteSets, TLC

VARIABLES
    kreq1, kreq2,   \* two requests handed to _generate_cache_key
    kid1, kid2,     \* the identities derived for them (NoKey before the call)
    cache,          \* the cache directory: identity -> file content
    now,            \* time.time()
    last,           \* the last completed cache/fetch call and what it gave
    written,        \* history: identity -> the most recent set call for it
    records,        \* the music_info dicts search_music has built, by reference
    music_queue,    \* music_queue: references to records, oldest first
    replies,        \* what each search_music call gave its caller
    processed,      \* history: what the worker did with each item it took
    disk,           \* the files of the cache directory, block by block
    writers         \* the threads inside RequestCache.set, and where each is

vars == <<kreq1, kreq2, kid1, kid2, cache, now, last, written,
          records, music_queue, replies, processed, disk, writers>>

keyVars == <<kreq1, kreq2, kid1, kid2>>
cacheVars == <<cache, now, last, written>>
uploadVars == <<records, music_queue, replies, processed>>
writerVars == <<disk, writers>>

\* the state of the upload hand-off when the module is loaded
InitUpload ==
    /\ records = <<>>
    /\ music_queue = <<>>
    /\ replies = <<>>
    /\ processed = <<>>

\* no thread is inside RequestCache.set
InitWriters ==
    /\ disk = <<>>
    /\ writers = <<>>

-----------------------------------------------------------------------------
(* Python values *)

None == [t |-> "none"]
Str(s) == [t |-> "str", v |-> s]
Dict(items) == [t |-> "dict", v |-> items]
Item(k, val) == [k |-> k, v |-> val]

\* bool(x) for None, str and dict: empty containers are falsy
Truthy(x) ==
    CASE x.t = "none" -> FALSE
      [] x.t = "str"  -> x.v # <<>>
      [] x.t = "dict" -> x.v # <<>>

\* ord(c) for the characters the model uses
CodePoint(c) ==
    CASE c = " "  -> 32  [] c = "\"" -> 34 [] c = "," -> 44 [] c = "-" -> 45
      [] c = "."  -> 46  [] c = "/"  -> 47 [] c = "1" -> 49 [] c = ":" -> 58
      [] c = "E"  -> 69  [] c = "G"  -> 71 [] c = "O" -> 79 [] c = "P" -> 80
      [] c = "S"  -> 83  [] c = "T"  -> 84 [] c = "\\" -> 92
      [] c = "a"  -> 97  [] c = "b"  -> 98 [] c = "c" -> 99 [] c = "d" -> 100
      [] c = "e"  -> 101 [] c = "g"  -> 103 [] c = "h" -> 104 [] c = "i" -> 105
      [] c = "l"  -> 108 [] c = "m"  -> 109 [] c = "n" -> 110 [] c = "o" -> 111
      [] c = "p"  -> 112 [] c = "q"  -> 113 [] c = "r" -> 114
      [] c = "s"  -> 115 [] c = "t"  -> 116 [] c = "u" -> 117 [] c = "w" -> 119
      [] c = "x"  -> 120 [] c = "y"  -> 121 [] c = "{" -> 123 [] c = "|" -> 124
      [] c = "}"  -> 125

\* s < t for Python strings (lexicographic by code point)
RECURSIVE StrLess(_, _)
StrLess(s, t) ==
    IF t = <<>> THEN FALSE
    ELSE IF s = <<>> THEN TRUE
    ELSE IF Head(s) = Head(t) THEN StrLess(Tail(s), Tail(t))
    ELSE CodePoint(Head(s)) < CodePoint(Head(t))

\* str.upper(), character by character
UpperChar(c) ==
    IF CodePoint(c) >= 97 /\ CodePoint(c) <= 122
    THEN CASE c = "e" -> "E" [] c = "g" -> "G" [] c = "o" -> "O"
           [] c = "p" -> "P" [] c = "s" -> "S" [] c = "t" -> "T"
           [] OTHER -> c
    ELSE c

upper(s) == [i \in 1..Len(s) |-> UpperChar(s[i])]

\* sep.join(parts)
RECURSIVE join(_, _)
join(sep, parts) ==
    IF parts = <<>> THEN <<>>
    ELSE IF Len(parts) = 1 THEN parts[1]
    ELSE parts[1] \o sep \o join(sep, Tail(parts))

\* the JSON string escape of json.dumps for the characters the model uses
RECURSIVE py_encode_basestring(_)
py_encode_basestring(s) ==
    IF s = <<>> THEN <<>>
    ELSE (IF Head(s) \in {"\"", "\\"} THEN <<"\\", Head(s)>> ELSE <<Head(s)>>)
         \o py_encode_basestring(Tail(s))

\* sorted(dct.items()): insertion sort of the items by key
RECURSIVE InsertItem(_, _)
InsertItem(it, sorted) ==
    IF sorted = <<>> THEN <<it>>
    ELSE IF StrLess(it.k, Head(sorted).k) THEN <<it>> \o sorted
    ELSE <<Head(sorted)>> \o InsertItem(it, Tail(sorted))

RECURSIVE SortedItems(_)
SortedItems(items) ==
    IF items = <<>> THEN <<>>
    ELSE InsertItem(Head(items), SortedItems(Tail(items)))

\* a plausible slip: sort_keys applied to the outermost mapping only
RECURSIVE DumpsTopSortOnly(_, _)
DumpsTopSortOnly(x, top) ==
    CASE x.t = "none" -> <<"n", "u", "l", "l">>
      [] x.t = "str"  -> <<"\"">> \o py_encode_basestring(x.v) \o <<"\"">>
      [] x.t = "dict" ->
           LET its == IF top THEN SortedItems(x.v) ELSE x.v
               one(it) == <<"\"">> \o py_encode_basestring(it.k) \o <<"\"", ":", " ">>
                          \o DumpsTopSortOnly(it.v, FALSE)
           IN <<"{">> \o join(<<",", " ">>, [i \in 1..Len(its) |-> one(its[i])])
              \o <<"}">>

json_dumps_unsorted_nested(x) == DumpsTopSortOnly(x, TRUE)

\* json.dumps(x, sort_keys=True) with the default separators (", ", ": ")
RECURSIVE json_dumps(_)
json_dumps(x) ==
    CASE x.t = "none" -> <<"n", "u", "l", "l">>
      [] x.t = "str"  -> <<"\"">> \o py_encode_basestring(x.v) \o <<"\"">>
      [] x.t = "dict" ->
           LET its == SortedItems(x.v)
               one(it) == <<"\"">> \o py_encode_basestring(it.k) \o <<"\"", ":", " ">>
                          \o json_dumps(it.v)
           IN <<"{">> \o join(<<",", " ">>, [i \in 1..Len(its) |-> one(its[i])])
              \o <<"}">>

\* hashlib.md5(...).hexdigest(), taken as collision-free: the digest is
\* determined by, and determines, the hashed string
md5_hexdigest(s) == [md5 |-> s]

NoKey == [md5 |-> <<"-">>]

\* a plausible slip: the body is appended for every method
generate_cache_key_any_method(url, method, data, json_data) ==
    LET base == <<upper(method), url>>
        parts == IF Truthy(json_data) THEN Append(base, json_dumps(json_data))
                 ELSE IF Truthy(data)
                      THEN Append(base, IF data.t = "dict" THEN json_dumps(data) ELSE data.v)
                      ELSE base
    IN md5_hexdigest(join(<<"|">>, parts))

\* RequestCache._generate_cache_key
generate_cache_key(url, method, data, json_data) ==
    LET base == <<upper(method), url>>
        parts ==
            IF upper(method) = <<"P", "O", "S", "T">>
            THEN IF Truthy(json_data)
                 THEN Append(base, json_dumps(json_data))
                 ELSE IF Truthy(data)
                      THEN Append(base, IF data.t = "dict"
                                        THEN json_dumps(data)
                                        ELSE data.v)
                      ELSE base
            ELSE base
    IN md5_hexdigest(join(<<"|">>, parts))

KeyOf(r) == generate_cache_key(r.url, r.method, r.data, r.json_data)

-----------------------------------------------------------------------------
(* Requests handed to the key derivation *)

GET == <<"G", "E", "T">>
POST == <<"P", "O", "S", "T">>

\* base_url of gequbao_request
base_url ==
    <<"h", "t", "t", "p", "s", ":", "/", "/", "w", "w", "w", ".",
      "g", "e", "q", "u", "b", "a", "o", ".", "c", "o", "m">>

PathSearchA == <<"/", "s", "/", "a">>
PathSearchB == <<"/", "s", "/", "b">>
PathPlayUrl == <<"/", "a", "p", "i", "/", "p", "l", "a", "y", "-", "u", "r", "l">>
\* links of listings: the paths of track pages
Link1 == <<"/", "m", "/", "1">>
Link2 == <<"/", "m", "/", "2">>

Request(method, url, data, json_data) ==
    [method |-> method, url |-> url, data |-> data, json_data |-> json_data]

\* x == y for Python values: dicts are equal as mappings, whatever their order
RECURSIVE MapEq(_, _)
MapEq(x, y) ==
    /\ x.t = y.t
    /\ CASE x.t = "none" -> TRUE
         [] x.t = "str"  -> x.v = y.v
         [] x.t = "dict" ->
              /\ Len(x.v) = Len(y.v)
              /\ \A i \in 1..Len(x.v) :
                    \E j \in 1..Len(y.v) :
                        /\ y.v[j].k = x.v[i].k
                        /\ MapEq(x.v[i].v, y.v[j].v)

\* every dict equal to x as a mapping: the items in every order, at every depth
RECURSIVE Reorderings(_)
Reorderings(x) ==
    IF x.t # "dict" THEN {x}
    ELSE LET n == Len(x.v)
             perms == {p \in [1..n -> 1..n] : \A i, j \in 1..n : p[i] = p[j] => i = j}
             inner == {f \in [1..n -> UNION {Reorderings(x.v[i].v) : i \in 1..n}] :
                          \A i \in 1..n : f[i] \in Reorderings(x.v[i].v)}
         IN {Dict([i \in 1..n |-> Item(x.v[p[i]].k, f[p[i]])]) : p \in perms, f \in inner}

DictEmpty == Dict(<<>>)
DictAX == Dict(<<Item(<<"a">>, Str(<<"x">>))>>)
DictAY == Dict(<<Item(<<"a">>, Str(<<"y">>))>>)
DictId1 == Dict(<<Item(<<"i", "d">>, Str(<<"1">>))>>)
DictAXBY == Dict(<<Item(<<"a">>, Str(<<"x">>)), Item(<<"b">>, Str(<<"y">>))>>)
DictNested == Dict(<<Item(<<"a">>, Str(<<"x">>)), Item(<<"b">>, DictAXBY)>>)

\* the structured bodies: each base mapping in every key order
KeyDicts ==
    UNION {Reorderings(d) :
              d \in {DictEmpty, DictAX, DictAY, DictId1, DictAXBY, DictNested}}

\* raw string bodies: empty, plain, and the text json.dumps gives for DictAX
StrEmpty == Str(<<>>)
StrX == Str(<<"x">>)
StrJsonAX == Str(<<"{", "\"", "a", "\"", ":", " ", "\"", "x", "\"", "}">>)

KeyStrs == {StrEmpty, StrX, StrJsonAX}

\* the (data, json_data) arguments: absent, raw string, form mapping,
\* JSON mapping, and both given
KeyBodies ==
    {<<None, None>>}
    \cup {<<s, None>> : s \in KeyStrs}
    \cup {<<d, None>> : d \in KeyDicts}
    \cup {<<None, d>> : d \in KeyDicts}
    \cup {<<StrX, DictAX>>, <<DictAY, DictAX>>}

KeyMethods == {GET, POST, <<"p", "o", "s", "t">>, <<"g", "e", "t">>}

KeyUrls == {base_url \o PathSearchA, base_url \o PathPlayUrl}

KeyRequests ==
    {Request(m, u, b[1], b[2]) : m \in KeyMethods, u \in KeyUrls, b \in KeyBodies}

-----------------------------------------------------------------------------
(* Key derivation applied to two requests *)

InitKey ==
    /\ kreq1 \in KeyRequests
    /\ kreq2 \in KeyRequests
    /\ kid1 = NoKey
    /\ kid2 = NoKey
    /\ cache = <<>>
    /\ now = 0
    /\ last = [op |-> "none"]
    /\ written = <<>>
    /\ InitUpload
    /\ InitWriters

DeriveKeys ==
    /\ kid1 = NoKey
    /\ kid1' = KeyOf(kreq1)
    /\ kid2' = KeyOf(kreq2)
    /\ UNCHANGED <<kreq1, kreq2, cacheVars, uploadVars, writerVars>>

NextKey == DeriveKeys

SpecKey == InitKey /\ [][NextKey]_vars

Derived == kid1 # NoKey

SameMethod(r1, r2) == upper(r1.method) = upper(r2.method)

\* C7: for a POST request, two structured bodies equal as mappings (keys in
\* any order, at any depth), with the same method up to case and the same
\* URL, derive the same identity.
C7_KeyOrderIndependent ==
    (/\ Derived
     /\ upper(kreq1.method) = POST
     /\ SameMethod(kreq1, kreq2)
     /\ kreq1.url = kreq2.url
     /\ MapEq(kreq1.data, kreq2.data)
     /\ MapEq(kreq1.json_data, kreq2.json_data))
    => kid1 = kid2

\* C7 witness: a JSON body nested two deep, reordered at both depths and
\* sent with the method in another case, has derived the same identity.
C7_Witness ==
    /\ Derived
    /\ kreq1.method = POST
    /\ kreq2.method = <<"p", "o", "s", "t">>
    /\ kreq1.url = kreq2.url
    /\ kreq1.data = None /\ kreq2.data = None
    /\ kreq1.json_data = DictNested
    /\ kreq2.json_data =
          Dict(<<Item(<<"b">>, Dict(<<Item(<<"b">>, Str(<<"y">>)),
                                      Item(<<"a">>, Str(<<"x">>))>>)),
                 Item(<<"a">>, Str(<<"x">>))>>)
    /\ kid1 = kid2

\* the request as sent: URL and body, a body being absent, empty, a raw
\* string, a form mapping or a JSON mapping
SameUrlAndBody(r1, r2) ==
    /\ r1.url = r2.url
    /\ MapEq(r1.data, r2.data)
    /\ MapEq(r1.json_data, r2.json_data)

\* C8: two POST requests whose (URL, body) differ never derive the same
\* identity (the canonical string is injective in the request).
C8_Injective ==
    (/\ Derived
     /\ upper(kreq1.method) = POST
     /\ upper(kreq2.method) = POST
     /\ ~SameUrlAndBody(kreq1, kreq2))
    => kid1 # kid2

-----------------------------------------------------------------------------
(* The requests the cache and the fetcher are called with *)

FetchRequest(path, method, data, json_data) ==
    [path |-> path, method |-> method, data |-> data, json_data |-> json_data]

\* search_sound's request
ReqSearch == FetchRequest(PathSearchA, GET, None, None)
\* a GET to the same URL that passes a body
ReqSearchBody == FetchRequest(PathSearchA, <<"g", "e", "t">>, StrX, DictAX)
\* get_play_url's request
ReqPlayUrl == FetchRequest(PathPlayUrl, POST, DictId1, None)

FetchRequests == {ReqSearch, ReqSearchBody, ReqPlayUrl}

\* play_sound's requests
ReqTrack1 == FetchRequest(Link1, GET, None, None)
ReqTrack2 == FetchRequest(Link2, GET, None, None)

\* the requests of one search by keyword
LookupRequests == {ReqSearch, ReqTrack1, ReqTrack2, ReqPlayUrl}

FullUrl(r) == base_url \o r.path

\* _generate_cache_key tabulated once for the arguments the model uses
KeyTable ==
    [a \in {<<FullUrl(r), r.method, r.data, r.json_data>> :
               r \in FetchRequests \cup LookupRequests} |->
        generate_cache_key(a[1], a[2], a[3], a[4])]

\* self._generate_cache_key(url, method, data, json_data) as get and set call it
cache_key_of(url, method, data, json_data) == KeyTable[<<url, method, data, json_data>>]

IdentityOf(r) == cache_key_of(FullUrl(r), r.method, r.data, r.json_data)

CacheKeys == {IdentityOf(r) : r \in FetchRequests}

-----------------------------------------------------------------------------
(* The cache store: RequestCache *)

\* CACHE_EXPIRY = 24 * 60 * 60
CACHE_EXPIRY == 24 * 60 * 60

\* a cache_expiry argument given as a number of seconds (None otherwise)
Seconds(n) == [t |-> "int", v |-> n]

\* Python dicts with string keys (cache_data, response_data) are functions
DictGet(d, k, default) == IF k \in DOMAIN d THEN d[k] ELSE default
DictUpdate(a, b) ==
    [k \in DOMAIN a \cup DOMAIN b |-> IF k \in DOMAIN b THEN b[k] ELSE a[k]]

\* a cache file: missing, unparseable, or a JSON document
Absent == [f |-> "absent"]
Corrupt == [f |-> "corrupt"]
File(d) == [f |-> "json", d |-> d]

\* what get returns: None or the cache_data dict
NotFound == [r |-> "none"]
Found(d) == [r |-> "dict", d |-> d]

\* a plausible slip: an entry whose age equals cache_expiry counts as expired
cache_get_strict_age(c, t, url, method, data, json_data, cache_expiry) ==
    LET expiry == IF cache_expiry.t = "none" THEN CACHE_EXPIRY ELSE cache_expiry.v
        file == c[cache_key_of(url, method, data, json_data)]
    IN IF file.f # "json" THEN NotFound
       ELSE Found(DictUpdate(file.d,
                [is_expired |-> t - DictGet(file.d, "timestamp", 0) >= expiry]))

\* a plausible slip: an expired entry is suppressed instead of returned
cache_get_drop_expired(c, t, url, method, data, json_data, cache_expiry) ==
    LET expiry == IF cache_expiry.t = "none" THEN CACHE_EXPIRY ELSE cache_expiry.v
        file == c[cache_key_of(url, method, data, json_data)]
    IN IF file.f # "json" THEN NotFound
       ELSE IF t - DictGet(file.d, "timestamp", 0) > expiry THEN NotFound
       ELSE Found(DictUpdate(file.d, [is_expired |-> FALSE]))

\* a plausible slip: the cache_expiry argument is ignored for the class default
cache_get_default_expiry(c, t, url, method, data, json_data, cache_expiry) ==
    LET file == c[cache_key_of(url, method, data, json_data)]
    IN IF file.f # "json" THEN NotFound
       ELSE Found(DictUpdate(file.d,
                [is_expired |-> t - DictGet(file.d, "timestamp", 0) > CACHE_EXPIRY]))

\* a plausible slip: a file that does not parse is read as an empty document
cache_get_corrupt_as_empty(c, t, url, method, data, json_data, cache_expiry) ==
    LET expiry == IF cache_expiry.t = "none" THEN CACHE_EXPIRY ELSE cache_expiry.v
        file == c[cache_key_of(url, method, data, json_data)]
        doc == IF file.f = "json" THEN file.d ELSE <<>>
    IN IF file.f = "absent" THEN NotFound
       ELSE Found(DictUpdate(doc,
                [is_expired |-> t - DictGet(doc, "timestamp", 0) > expiry]))

\* RequestCache.get, on the directory c at time t
cache_get(c, t, url, method, data, json_data, cache_expiry) ==
    LET expiry == IF cache_expiry.t = "none" THEN CACHE_EXPIRY ELSE cache_expiry.v
        cache_key == cache_key_of(url, method, data, json_data)
        file == c[cache_key]
    IN IF file.f = "absent" THEN NotFound
       ELSE IF file.f = "corrupt" THEN NotFound     \* json.load raises; caught
       ELSE LET cached_time == DictGet(file.d, "timestamp", 0)
                age == t - cached_time
                is_expired == age > expiry
            IN Found(DictUpdate(file.d, [is_expired |-> is_expired]))

\* a plausible slip: the new fields are merged into the stored document
cache_set_merge(c, t, url, response_data, method, data, json_data, fault) ==
    LET cache_key == cache_key_of(url, method, data, json_data)
        old == IF c[cache_key].f = "json" THEN c[cache_key].d ELSE <<>>
        cache_data == DictUpdate(DictUpdate(old,
                          [timestamp |-> t, url |-> url, method |-> upper(method)]),
                          response_data)
    IN IF fault = "open" THEN [cache |-> c, ok |-> FALSE]
       ELSE IF fault = "write" THEN [cache |-> [c EXCEPT ![cache_key] = Corrupt], ok |-> FALSE]
       ELSE [cache |-> [c EXCEPT ![cache_key] = File(cache_data)], ok |-> TRUE]

\* RequestCache.set, on the directory c at time t. fault is what the storage
\* does: "none"; "open" (open(cache_file, 'w') raises: nothing is touched);
\* "write" (the file was truncated by open and json.dump raises before the
\* document is complete: the file is left unparseable)
cache_set(c, t, url, response_data, method, data, json_data, fault) ==
    LET cache_key == cache_key_of(url, method, data, json_data)
        cache_data == DictUpdate([timestamp |-> t, url |-> url, method |-> upper(method)],
                                 response_data)
    IN IF fault = "open" THEN [cache |-> c, ok |-> FALSE]
       ELSE IF fault = "write"
            THEN [cache |-> [c EXCEPT ![cache_key] = Corrupt], ok |-> FALSE]
            ELSE [cache |-> [c EXCEPT ![cache_key] = File(cache_data)], ok |-> TRUE]

StorageFaults == {"none", "open", "write"}

-----------------------------------------------------------------------------
(* The cached fetcher: gequbao_request *)

\* str.encode / bytes.decode: text read back under another codec is garbled
Encode(text, codec) == [codec |-> codec, text |-> text]
Decode(bytes, codec) ==
    IF bytes.text = "" \/ bytes.codec = codec THEN bytes.text
    ELSE "garbled:" \o bytes.text

\* a requests.Response: status_code, headers, _content (bytes), encoding
Response(status_code, headers, content, encoding) ==
    [status_code |-> status_code, headers |-> headers,
     content |-> content, encoding |-> encoding]

\* Response.text
response_text(response) == Decode(response.content, response.encoding)

NoResponse == Response(0, <<>>, Encode("", "utf-8"), "utf-8")

HeadersUtf8 == [ContentType |-> "text/html; charset=utf-8"]
HeadersGbk == [ContentType |-> "text/html; charset=gbk"]

RespA == Response(200, HeadersUtf8, Encode("pageA", "utf-8"), "utf-8")
RespB == Response(200, HeadersGbk, Encode("pageB", "gbk"), "gbk")
Resp304 == Response(304, HeadersUtf8, Encode("", "utf-8"), "utf-8")
Resp404 == Response(404, HeadersUtf8, Encode("not found", "utf-8"), "utf-8")

\* what the server may answer (a 3xx here is one requests does not follow,
\* e.g. 304 Not Modified)
NetResponses == {RespA, RespB, Resp304, Resp404}

\* what requests.request may do: raise a transport error (timeout,
\* connection error, DNS) or return the server's response
Transport == [kind |-> "transport"]
Answer(resp) == [kind |-> "response", resp |-> resp]
NotCalled == [kind |-> "not called"]
NetOutcomes == {Transport} \cup {Answer(r) : r \in NetResponses}

\* response.raise_for_status(): raises HTTPError for 4xx and 5xx
raise_for_status(response) ==
    response.status_code >= 400 /\ response.status_code < 600

\* _create_response_from_cache
create_response_from_cache(cached_data) ==
    Response(DictGet(cached_data, "status_code", 200),
             DictGet(cached_data, "headers", <<>>),
             Encode(DictGet(cached_data, "content", ""), "utf-8"),
             DictGet(cached_data, "encoding", "utf-8"))

\* the response_data dict _save_response_to_cache builds
response_data_of(response) ==
    [status_code |-> response.status_code,
     headers |-> response.headers,
     content |-> response_text(response),
     encoding |-> response.encoding]

\* _save_response_to_cache: the value of set is dropped
save_response_to_cache(c, t, url, response, method, data, json_data, fault) ==
    cache_set(c, t, url, response_data_of(response), method, data, json_data, fault)

\* a plausible slip: the response is persisted whatever use_cache says
save_if_use_cache_always(c, t, url, response, method, data, json_data, use_cache, fault) ==
    LET s == save_response_to_cache(c, t, url, response, method, data, json_data, fault)
    IN [cache |-> s.cache, saved |-> IF s.ok THEN "yes" ELSE "failed"]

\* a plausible slip: the storage error is not caught on the way out of the save
save_if_use_cache_unguarded(c, t, url, response, method, data, json_data, use_cache, fault) ==
    IF use_cache
    THEN LET s == save_response_to_cache(c, t, url, response, method, data, json_data, fault)
         IN [cache |-> s.cache, saved |-> IF s.ok THEN "yes" ELSE "raised"]
    ELSE [cache |-> c, saved |-> "no"]

\* gequbao_request, `if use_cache: _save_response_to_cache(...)`
save_if_use_cache(c, t, url, response, method, data, json_data, use_cache, fault) ==
    IF use_cache
    THEN LET s == save_response_to_cache(c, t, url, response, method, data, json_data, fault)
         IN [cache |-> s.cache, saved |-> IF s.ok THEN "yes" ELSE "failed"]
    ELSE [cache |-> c, saved |-> "no"]

\* a plausible slip: an entry served as fallback is stamped with the time of
\* the fallback
request_after_lookup_refreshing(c, t, full_url, method, data, json_data, use_cache, net, fault, cached_data) ==
    LET hit == cached_data.r = "dict"
        is_expired == hit /\ DictGet(cached_data.d, "is_expired", FALSE)
        cache_key == cache_key_of(full_url, method, data, json_data)
    IN IF hit /\ ~is_expired
       THEN [cache |-> c, net |-> NotCalled, saved |-> "no", outcome |-> "return",
             response |-> create_response_from_cache(cached_data.d)]
       ELSE IF net.kind = "response" /\ ~raise_for_status(net.resp)
            THEN LET s == save_if_use_cache(c, t, full_url, net.resp, method, data,
                                            json_data, use_cache, fault)
                 IN [cache |-> s.cache, net |-> net, saved |-> s.saved,
                     outcome |-> "return", response |-> net.resp]
            ELSE IF hit
                 THEN [cache |-> [c EXCEPT ![cache_key] =
                                     File(DictUpdate(c[cache_key].d, [timestamp |-> t]))],
                       net |-> net, saved |-> "no", outcome |-> "return",
                       response |-> create_response_from_cache(cached_data.d)]
                 ELSE [cache |-> c, net |-> net, saved |-> "no", outcome |-> "raise",
                       response |-> NoResponse]

\* gequbao_request from `if cached_data:` on, cached_data being what the
\* cache lookup gave (NotFound when use_cache is off)
request_after_lookup(c, t, full_url, method, data, json_data, use_cache, net, fault, cached_data) ==
    LET \* `if cached_data:` -- the dict get returns holds is_expired, so it is truthy
        hit == cached_data.r = "dict"
        is_expired == hit /\ DictGet(cached_data.d, "is_expired", FALSE)
        cached_response == IF hit /\ is_expired THEN cached_data ELSE NotFound
    IN IF hit /\ ~is_expired
       THEN [cache |-> c, net |-> NotCalled, saved |-> "no", outcome |-> "return",
             response |-> create_response_from_cache(cached_data.d)]
       ELSE IF net.kind = "response" /\ ~raise_for_status(net.resp)
            THEN LET s == save_if_use_cache(c, t, full_url, net.resp, method, data,
                                            json_data, use_cache, fault)
                 IN \* an exception leaving the save step is no RequestException:
                    \* it would pass the handler and reach the caller
                    IF s.saved = "raised"
                    THEN [cache |-> s.cache, net |-> net, saved |-> s.saved,
                          outcome |-> "raise", response |-> NoResponse]
                    ELSE [cache |-> s.cache, net |-> net, saved |-> s.saved,
                          outcome |-> "return", response |-> net.resp]
            \* except requests.exceptions.RequestException (HTTPError included)
            ELSE IF cached_response.r = "dict"
                 THEN [cache |-> c, net |-> net, saved |-> "no", outcome |-> "return",
                       response |-> create_response_from_cache(cached_response.d)]
                 ELSE [cache |-> c, net |-> net, saved |-> "no", outcome |-> "raise",
                       response |-> NoResponse]

\* gequbao_request on the directory c at time t; net is what the network call
\* does if it is made, fault what the storage does if the response is saved
gequbao_request(c, t, path, method, data, json_data, use_cache, cache_expiry, net, fault) ==
    request_after_lookup(c, t, base_url \o path, method, data, json_data, use_cache,
                         net, fault,
                         IF use_cache
                         THEN cache_get(c, t, base_url \o path, method, data, json_data,
                                        cache_expiry)
                         ELSE NotFound)

-----------------------------------------------------------------------------
(* Calls on the cache and the fetcher *)

\* the clock is observed at the start, when CACHE_EXPIRY has gone by, and up
\* to MaxSkew seconds after that
MaxSkew == 1

Expiries == {None, Seconds(0)}

\* response_data handed to set directly: what a fetch stores, and a dict
\* that leaves fields out
SetDatas ==
    {response_data_of(RespA), response_data_of(RespB),
     [status_code |-> 200, content |-> "pageC"]}

\* history of the set calls for an identity: none yet, the last one failed,
\* or the last one stored response_data at time t
NoWrite == [w |-> "none"]
WriteFailed == [w |-> "failed"]
Wrote(t, response_data) == [w |-> "ok", at |-> t, data |-> response_data]

Init ==
    /\ cache = [k \in CacheKeys |-> Absent]
    /\ now = 0
    /\ last = [op |-> "none"]
    /\ written = [k \in CacheKeys |-> NoWrite]
    /\ kreq1 = Request(GET, FullUrl(ReqSearch), None, None)
    /\ kreq2 = Request(GET, FullUrl(ReqSearch), None, None)
    /\ kid1 = NoKey
    /\ kid2 = NoKey
    /\ InitUpload
    /\ InitWriters

\* time passes: a second, or a whole CACHE_EXPIRY
Tick ==
    \E d \in {1, CACHE_EXPIRY} :
        /\ now + d <= CACHE_EXPIRY + MaxSkew
        /\ d = 1 => now >= CACHE_EXPIRY
        /\ now' = now + d
        /\ last' = [op |-> "tick"]
        /\ UNCHANGED <<cache, written, keyVars, uploadVars, writerVars>>

\* one call of gequbao_request
Fetch ==
    \E r \in FetchRequests, use_cache \in BOOLEAN, cache_expiry \in Expiries,
       net \in NetOutcomes, fault \in StorageFaults :
        \E res \in {gequbao_request(cache, now, r.path, r.method, r.data, r.json_data,
                                    use_cache, cache_expiry, net, fault)},
           key \in {IdentityOf(r)} :
           /\ cache' = res.cache
           /\ last' = [op |-> "fetch", req |-> r, use_cache |-> use_cache,
                       cache_expiry |-> cache_expiry, key |-> key, pre |-> cache[key],
                       net |-> res.net, saved |-> res.saved,
                       outcome |-> res.outcome, response |-> res.response]
           /\ UNCHANGED <<now, written, keyVars, uploadVars, writerVars>>

\* one call of RequestCache.get
CacheGet ==
    \E r \in FetchRequests, cache_expiry \in Expiries :
        /\ last' = [op |-> "get", req |-> r, cache_expiry |-> cache_expiry,
                    key |-> IdentityOf(r), pre |-> cache[IdentityOf(r)],
                    result |-> cache_get(cache, now, FullUrl(r), r.method, r.data,
                                         r.json_data, cache_expiry)]
        /\ UNCHANGED <<cache, now, written, keyVars, uploadVars, writerVars>>

\* one call of RequestCache.set
CacheSet ==
    \E r \in FetchRequests, response_data \in SetDatas, fault \in StorageFaults :
        \E res \in {cache_set(cache, now, FullUrl(r), response_data, r.method, r.data,
                              r.json_data, fault)},
           key \in {IdentityOf(r)} :
           /\ cache' = res.cache
           /\ last' = [op |-> "set", req |-> r, key |-> key, pre |-> cache[key],
                       data |-> response_data, ok |-> res.ok]
           /\ written' = [written EXCEPT ![key] =
                              IF res.ok THEN Wrote(now, response_data) ELSE WriteFailed]
           /\ UNCHANGED <<now, keyVars, uploadVars, writerVars>>

\* the program: the cache is read and written by gequbao_request only
Next == Tick \/ Fetch

Spec == Init /\ [][Next]_vars

\* the RequestCache class called directly
NextStore == Tick \/ CacheGet \/ CacheSet

SpecStore == Init /\ [][NextStore]_vars

-----------------------------------------------------------------------------
(* Properties of the fetcher *)

LastFetch == last.op = "fetch"

\* maxAge of a call: the cache_expiry argument, CACHE_EXPIRY when None
MaxAge(cache_expiry) == IF cache_expiry.t = "none" THEN CACHE_EXPIRY ELSE cache_expiry.v

\* the file of the fetched identity when the fetch began (Fetch leaves now alone)
PreEntry == last.pre.f = "json"
PreAge == now - last.pre.d.timestamp
PreFresh == PreEntry /\ PreAge <= MaxAge(last.cache_expiry)
PreStale == PreEntry /\ PreAge > MaxAge(last.cache_expiry)

Is2xx(status_code) == status_code >= 200 /\ status_code <= 299

\* the response is the stored entry d: its status, headers and encoding, and
\* its content as UTF-8 bytes
Serves(response, d) ==
    /\ response.status_code = d.status_code
    /\ response.headers = d.headers
    /\ response.content = Encode(d.content, "utf-8")
    /\ response.encoding = d.encoding

C2_FreshHitNoNetwork ==
    (LastFetch /\ last.use_cache /\ PreFresh)
    => /\ last.net = NotCalled
       /\ last.outcome = "return"
       /\ Serves(last.response, last.pre.d)
       /\ cache[last.key] = last.pre

\* C2 witness: an entry exactly maxAge old (CACHE_EXPIRY seconds) was served
\* without a network call.
C2_Witness ==
    /\ LastFetch /\ last.use_cache
    /\ PreEntry /\ PreAge = MaxAge(last.cache_expiry) /\ PreAge > 0
    /\ last.net = NotCalled
    /\ last.outcome = "return"

\* C3: with use_cache and a stale entry, a non-2xx answer of the server does
\* not return the stale entry: the fetch raises.
C3_NoFallbackOnHttpError ==
    (/\ LastFetch /\ last.use_cache /\ PreStale
     /\ last.net.kind = "response"
     /\ ~Is2xx(last.net.resp.status_code))
    => last.outcome = "raise"

\* C4: an entry created or overwritten by a fetch has a 2xx status code, and
\* a non-2xx answer neither creates nor overwrites the entry of its identity.
C4_Only2xxStored ==
    LastFetch
    => /\ (cache[last.key] # last.pre /\ cache[last.key].f = "json")
             => Is2xx(cache[last.key].d.status_code)
       /\ (last.net.kind = "response" /\ ~Is2xx(last.net.resp.status_code))
             => cache[last.key] = last.pre

C9_GetKeyedByUrl ==
    (LastFetch /\ last.use_cache /\ upper(last.req.method) = GET)
    => \A r \in FetchRequests :
          (upper(r.method) = GET /\ FullUrl(r) = FullUrl(last.req))
          => /\ IdentityOf(r) = last.key
             /\ PreFresh => /\ last.net = NotCalled
                            /\ Serves(last.response, last.pre.d)
                            /\ last.pre.d.url = FullUrl(r)

\* C9 witness: a GET that passes a form body and a JSON body was served from
\* the entry of its URL without a network call.
C9_Witness ==
    /\ LastFetch /\ last.use_cache
    /\ last.req = ReqSearchBody
    /\ IdentityOf(ReqSearch) = last.key
    /\ PreFresh
    /\ last.net = NotCalled

-----------------------------------------------------------------------------
(* Properties of the cache store *)

ResponseFields == {"status_code", "headers", "content", "encoding"}

\* C10: after any sequence of sets, a get whose maxAge exceeds the time
\* elapsed since the last set of the identity (one that stored) returns a
\* fresh entry holding exactly the fields of that set: each field it gave,
\* with its value, and no field of an earlier write.
C10_SetGetRoundTrip ==
    (/\ last.op = "get"
     /\ written[last.key].w = "ok"
     /\ now - written[last.key].at < MaxAge(last.cache_expiry))
    => /\ last.result.r = "dict"
       /\ last.result.d.is_expired = FALSE
       /\ last.result.d.timestamp = written[last.key].at
       /\ \A f \in ResponseFields :
             /\ f \in DOMAIN last.result.d <=> f \in DOMAIN written[last.key].data
             /\ f \in DOMAIN written[last.key].data
                   => last.result.d[f] = written[last.key].data[f]

\* C10 witness: a get, a second after a set that gave only two fields,
\* returned the entry fresh.
C10_Witness ==
    /\ last.op = "get"
    /\ written[last.key].w = "ok"
    /\ DOMAIN written[last.key].data = {"status_code", "content"}
    /\ now - written[last.key].at = 1
    /\ last.cache_expiry = None
    /\ last.result.r = "dict"

-----------------------------------------------------------------------------
(* search_music and the background upload worker *)

\* how many search_music calls are made
MaxSearches == 2

\* del d[k]
DictDel(d, k) == [x \in DOMAIN d \ {k} |-> d[x]]

\* sound_info as extract_app_data gives it: window.appData plus "lrc"
InfoFull ==
    [play_id |-> "42", mp3_title |-> "song", mp3_author |-> "artist",
     mp3_cover |-> "cover.jpg", lrc |-> "la la"]
InfoBare == [play_id |-> "42", lrc |-> ""]

\* the play-url answers get_play_url may give: None, or the parsed JSON
PlayNone == [t |-> "none"]
PlayDict(d) == [t |-> "dict", d |-> d]
PlayOk == PlayDict([code |-> 1, data |-> [url |-> "http://cdn/42.mp3"]])
PlayNoUrl == PlayDict([code |-> 1, data |-> [msg |-> "vip only"]])
PlayNoData == PlayDict([code |-> 0, msg |-> "error"])

\* what api_music_gequbao_search gives search_music: an exception, None, or
\* the pair (sound_info, play_url)
ApiRaises == [t |-> "raise"]
ApiNone == [t |-> "none"]
ApiTuple(info, play) == [t |-> "tuple", info |-> info, play |-> play]

ApiResults ==
    {ApiRaises, ApiNone}
    \cup {ApiTuple(i, pl) : i \in {InfoFull, InfoBare},
                            pl \in {PlayNone, PlayOk, PlayNoUrl, PlayNoData}}

\* search_music, given what api_music_gequbao_search did: the outcome and the
\* music_info dict that is put on music_queue and returned in musicList
search_music(result) ==
    IF result.t = "raise" THEN [outcome |-> "raise", music_info |-> <<>>]
    ELSE IF result.t = "none" THEN [outcome |-> "ToolError", music_info |-> <<>>]
    \* `'data' not in result[1]` raises TypeError on None; wrapped in ToolError
    ELSE IF result.play.t = "none" THEN [outcome |-> "ToolError", music_info |-> <<>>]
    ELSE IF "data" \notin DOMAIN result.play.d
         THEN [outcome |-> "ToolError", music_info |-> <<>>]
    ELSE IF "url" \notin DOMAIN result.play.d.data
         THEN [outcome |-> "ToolError", music_info |-> <<>>]
    ELSE [outcome |-> "return",
          music_info |->
              [url |-> result.play.d.data.url,
               \* the two defaults stand for the source's Chinese literals
               title |-> DictGet(result.info, "mp3_title", "unknown song"),
               artist |-> DictGet(result.info, "mp3_author", "unknown artist"),
               artworkUrl |-> DictGet(result.info, "mp3_cover", ""),
               lrcText |-> DictGet(result.info, "lrc", ""),
               lrcUrl |-> DictGet(result.info, "lrc_url", "")]]

\* what happens around one save_music call: the temporary directory cannot
\* be made, the download fails, a later step (AList login, an upload) fails,
\* or all goes well
SaveEnvs == {"mkdtemp fails", "download fails", "upload fails", "ok"}

\* save_music on the dict music_info: the dict as it leaves it, and its result.
\* Every exception is caught inside and gives False.
save_music(music_info, env) ==
    IF env = "mkdtemp fails" THEN [info |-> music_info, ok |-> FALSE]
    ELSE IF "url" \notin DOMAIN music_info THEN [info |-> music_info, ok |-> FALSE]
    ELSE IF env = "download fails" THEN [info |-> music_info, ok |-> FALSE]
    ELSE LET d1 == DictDel(music_info, "url")
             d2 == DictDel(d1, "lrcText")
             d3 == DictDel(d2, "lrcUrl")
         IN IF "lrcText" \notin DOMAIN d1 THEN [info |-> d1, ok |-> FALSE]
            ELSE IF "lrcUrl" \notin DOMAIN d2 THEN [info |-> d2, ok |-> FALSE]
            ELSE [info |-> d3, ok |-> env = "ok"]

NotRead == [read |-> FALSE]
Read(d) == [read |-> TRUE, d |-> d]

\* a plausible slip: the dict is put on the queue before the result is checked
SearchMusic_put_before_checks ==
    /\ Len(replies) < MaxSearches
    /\ \E result \in ApiResults :
          \E res \in {search_music(result)} :
             /\ records' = Append(records, res.music_info)
             /\ music_queue' = Append(music_queue, Len(records) + 1)
             /\ replies' = Append(replies,
                              IF res.outcome = "return"
                              THEN [kind |-> "return", ref |-> Len(records) + 1,
                                    built |-> res.music_info, seen |-> NotRead]
                              ELSE [kind |-> res.outcome])
             /\ UNCHANGED processed
    /\ UNCHANGED <<keyVars, cacheVars, writerVars>>

\* one call of the search_music tool: the dict it builds is put on the queue
\* and the same object is returned inside the reply
SearchMusic ==
    /\ Len(replies) < MaxSearches
    /\ \E result \in ApiResults :
          \E res \in {search_music(result)} :
             IF res.outcome = "return"
             THEN /\ records' = Append(records, res.music_info)
                  /\ music_queue' = Append(music_queue, Len(records) + 1)
                  /\ replies' = Append(replies,
                                   [kind |-> "return", ref |-> Len(records) + 1,
                                    built |-> res.music_info, seen |-> NotRead])
                  /\ UNCHANGED processed
             ELSE /\ replies' = Append(replies, [kind |-> res.outcome])
                  /\ UNCHANGED <<records, music_queue, processed>>
    /\ UNCHANGED <<keyVars, cacheVars, writerVars>>

\* the caller of search_music reads the record of a reply it was given
ReadReply ==
    /\ \E i \in 1..Len(replies) :
          /\ replies[i].kind = "return"
          /\ ~replies[i].seen.read
          /\ replies' = [replies EXCEPT ![i].seen = Read(records[replies[i].ref])]
    /\ UNCHANGED <<records, music_queue, processed, keyVars, cacheVars, writerVars>>

\* a plausible slip: the loop ends when saving an item has failed
Worker_stops_on_failure ==
    /\ music_queue # <<>>
    /\ \A j \in 1..Len(processed) : processed[j].ok
    /\ \E env \in SaveEnvs :
          \E res \in {save_music(records[Head(music_queue)], env)} :
             /\ records' = [records EXCEPT ![Head(music_queue)] = res.info]
             /\ processed' = Append(processed, [ref |-> Head(music_queue), ok |-> res.ok])
    /\ music_queue' = Tail(music_queue)
    /\ UNCHANGED <<replies, keyVars, cacheVars, writerVars>>

\* one turn of the worker loop: music_queue.get(), save_music, task_done
Worker ==
    /\ music_queue # <<>>
    /\ \E env \in SaveEnvs :
          \E res \in {save_music(records[Head(music_queue)], env)} :
             /\ records' = [records EXCEPT ![Head(music_queue)] = res.info]
             /\ processed' = Append(processed, [ref |-> Head(music_queue), ok |-> res.ok])
    /\ music_queue' = Tail(music_queue)
    /\ UNCHANGED <<replies, keyVars, cacheVars, writerVars>>

InitSearch ==
    /\ InitUpload
    /\ InitWriters
    /\ cache = <<>>
    /\ now = 0
    /\ last = [op |-> "none"]
    /\ written = <<>>
    /\ kreq1 = Request(GET, FullUrl(ReqSearch), None, None)
    /\ kreq2 = Request(GET, FullUrl(ReqSearch), None, None)
    /\ kid1 = NoKey
    /\ kid2 = NoKey

NextSearch == SearchMusic \/ ReadReply \/ Worker

SpecSearch == InitSearch /\ [][NextSearch]_vars

\* C6: the record search_music returned is the record it built, whatever
\* the worker has done with the enqueued record: no field of it is removed or
\* changed, neither in the returned object nor in what its caller reads.
C6_ReturnedRecordIntact ==
    \A i \in 1..Len(replies) :
        replies[i].kind = "return"
        => /\ records[replies[i].ref] = replies[i].built
           /\ replies[i].seen.read => replies[i].seen.d = replies[i].built

-----------------------------------------------------------------------------
(* RequestCache.get and RequestCache.clear_expired *)

LastGet == last.op = "get"

\* C11: get returns the entry whenever a parseable entry exists for the
\* identity, whatever its age, with the stored fields untouched; the entry is
\* marked fresh exactly when now - timestamp <= maxAge and stale otherwise; get
\* returns not-found only when there is no parseable entry for the identity.
C11_GetMarksStale ==
    LastGet
    => /\ PreEntry
          => /\ last.result.r = "dict"
             /\ last.result.d.is_expired = ~(PreAge <= MaxAge(last.cache_expiry))
             /\ \A f \in DOMAIN last.pre.d : last.result.d[f] = last.pre.d[f]
       /\ last.result = NotFound => ~PreEntry

\* C11 witnesses: an entry exactly maxAge old was returned, marked fresh ...
C11_Witness ==
    /\ LastGet
    /\ PreEntry
    /\ PreAge = CACHE_EXPIRY
    /\ last.cache_expiry = None
    /\ last.result.r = "dict"
    /\ ~last.result.d.is_expired

\* ... and an entry older than maxAge was returned, marked stale
C11_WitnessStale ==
    /\ LastGet
    /\ PreStale
    /\ last.result.r = "dict"
    /\ last.result.d.is_expired

\* the cache_expiry arguments given to clear_expired (the default among them)
ClearExpiries == {CACHE_EXPIRY, 0}

\* would clear_expired, at time t, unlink this file?
clear_expired_at_boundary_unlinks(file, t, cache_expiry) ==
    \/ file.f = "corrupt"
    \/ file.f = "json" /\ t - DictGet(file.d, "timestamp", 0) >= cache_expiry

clear_expired_unlinks(file, t, cache_expiry) ==
    \/ file.f = "corrupt"                            \* json.load raises: except branch
    \/ /\ file.f = "json"
       /\ t - DictGet(file.d, "timestamp", 0) > cache_expiry

\* RequestCache.clear_expired on the directory c at time t (current_time is
\* read once, before the loop): the directory it leaves and the count
clear_expired(c, t, cache_expiry) ==
    LET gone == {k \in DOMAIN c : clear_expired_unlinks(c[k], t, cache_expiry)}
    IN [cache |-> [k \in DOMAIN c |-> IF k \in gone THEN Absent ELSE c[k]],
        count |-> Cardinality(gone)]

\* one call of RequestCache.clear_expired
ClearExpired ==
    \E cache_expiry \in ClearExpiries :
        \E res \in {clear_expired(cache, now, cache_expiry)} :
           /\ cache' = res.cache
           /\ last' = [op |-> "clear_expired", cache_expiry |-> cache_expiry,
                       before |-> cache, count |-> res.count]
           /\ written' = [k \in DOMAIN written |->
                             IF res.cache[k] # cache[k] THEN NoWrite ELSE written[k]]
           /\ UNCHANGED <<now, keyVars, uploadVars, writerVars>>

\* the cache directory written by set and swept by clear_expired
NextSweep == Tick \/ CacheSet \/ ClearExpired

SpecSweep == Init /\ [][NextSweep]_vars

LastSweep == last.op = "clear_expired"

AgeOf(file) == now - file.d.timestamp

\* C12: after clear_expired(maxAge), no remaining entry is older than maxAge
\* and none is unparseable; every entry of age <= maxAge (one that get with the
\* same maxAge marks fresh) is still there, unchanged; the count returned is
\* the number of entries removed.
C12_ClearExpired ==
    LastSweep
    => /\ \A k \in CacheKeys :
             /\ cache[k].f = "json" => AgeOf(cache[k]) <= last.cache_expiry
             /\ cache[k].f # "corrupt"
             /\ (last.before[k].f = "json"
                   /\ AgeOf(last.before[k]) <= last.cache_expiry)
                => cache[k] = last.before[k]
       /\ \A r \in FetchRequests :
             \E g \in {cache_get(last.before, now, FullUrl(r), r.method, r.data,
                                 r.json_data, Seconds(last.cache_expiry))} :
                (g.r = "dict" /\ ~g.d.is_expired)
                => cache[IdentityOf(r)] = last.before[IdentityOf(r)]
       /\ last.count = Cardinality({k \in CacheKeys :
                                       last.before[k] # Absent /\ cache[k] = Absent})
       /\ \A k \in CacheKeys : cache[k] # last.before[k] => cache[k] = Absent

\* C12 witness: a sweep removed an expired entry and a corrupt file, nothing
\* else being there to keep ...
C12_Witness ==
    /\ LastSweep
    /\ last.count = 2
    /\ \E k \in CacheKeys : last.before[k].f = "corrupt"
    /\ \E k \in CacheKeys : last.before[k].f = "json"

\* ... and a sweep removed one entry and kept one exactly maxAge old
C12_WitnessKept ==
    /\ LastSweep
    /\ last.count = 1
    /\ \E k \in CacheKeys :
          /\ cache[k].f = "json"
          /\ AgeOf(cache[k]) = last.cache_expiry

-----------------------------------------------------------------------------
(* parse_music_data: the listings of a results page *)

\* how many a.music-link rows a results page holds
MaxRows == 2

IsSpace(c) == c \in {" ", "\n", "\t"}

RECURSIVE lstrip(_)
lstrip(s) == IF s # <<>> /\ IsSpace(Head(s)) THEN lstrip(Tail(s)) ELSE s

RECURSIVE rstrip(_)
rstrip(s) ==
    IF s # <<>> /\ IsSpace(s[Len(s)]) THEN rstrip(SubSeq(s, 1, Len(s) - 1)) ELSE s

\* str.strip()
strip(s) == rstrip(lstrip(s))

\* what Tag.find gives: None, or a tag with its text
NoTag == [tag |-> "none"]
Tag(text) == [tag |-> "tag", text |-> text]

\* one <a class="music-link">: its href attribute (None when it has none), its
\* <span class="music-title"> and its <small>
Row(href, title, artist) == [href |-> href, title |-> title, artist |-> artist]

\* the parsed document: is there a <div class="card-text">, and the
\* a.music-link tags inside it, in document order
Page(container, rows) == [container |-> container, rows |-> rows]

Returns(value) == [outcome |-> "return", value |-> value]
Raises(error) == [outcome |-> "raise", error |-> error]

\* the loop of parse_music_data over song_rows
RECURSIVE parse_rows(_, _)
parse_rows(song_rows, data_list) ==
    IF song_rows = <<>> THEN Returns(data_list)
    ELSE LET row_tag == Head(song_rows)
             link == row_tag.href
         IN \* row_tag.find(...) is None: None.get_text raises AttributeError
            IF row_tag.title = NoTag THEN Raises("AttributeError")
            ELSE IF row_tag.artist = NoTag THEN Raises("AttributeError")
            ELSE LET song_title == strip(row_tag.title.text)
                     artist_name == strip(row_tag.artist.text)
                 IN IF Truthy(link) /\ song_title # <<>> /\ artist_name # <<>>
                    THEN parse_rows(Tail(song_rows),
                             Append(data_list,
                                    [link |-> link.v, text |-> <<song_title, artist_name>>]))
                    ELSE parse_rows(Tail(song_rows), data_list)

parse_music_data(html_content) ==
    IF ~html_content.container THEN Returns(<<>>)
    ELSE parse_rows(html_content.rows, <<>>)

TextSong == <<" ", "S", "o", "n", "g">>
TextJJ == <<"J", "J">>

ParseRowSet ==
    {Row(h, t, a) : h \in {None, Str(<<>>), Str(Link1)},
                    t \in {NoTag, Tag(<<" ">>), Tag(TextSong)},
                    a \in {NoTag, Tag(<<>>), Tag(TextJJ)}}

RECURSIVE SeqsUpTo(_, _)
SeqsUpTo(S, n) ==
    IF n = 0 THEN {<<>>}
    ELSE SeqsUpTo(S, n - 1)
         \cup {Append(q, x) : q \in {r \in SeqsUpTo(S, n - 1) : Len(r) = n - 1}, x \in S}

ParsePages == {Page(c, rows) : c \in BOOLEAN, rows \in SeqsUpTo(ParseRowSet, MaxRows)}

\* a results page is about to be parsed
InitParse ==
    /\ InitUpload
    /\ InitWriters
    /\ cache = <<>>
    /\ now = 0
    /\ written = <<>>
    /\ kreq1 = Request(GET, FullUrl(ReqSearch), None, None)
    /\ kreq2 = Request(GET, FullUrl(ReqSearch), None, None)
    /\ kid1 = NoKey
    /\ kid2 = NoKey
    /\ \E page \in ParsePages : last = [op |-> "page", page |-> page]

\* one call of parse_music_data
ParseListing ==
    /\ last.op = "page"
    /\ last' = [op |-> "parse_music_data", page |-> last.page,
                result |-> parse_music_data(last.page)]
    /\ UNCHANGED <<cache, now, written, keyVars, uploadVars, writerVars>>

NextParse == ParseListing

SpecParse == InitParse /\ [][NextParse]_vars

\* an entry that has all three of link, title and artist
CompleteRow(row) ==
    /\ Truthy(row.href)
    /\ row.title # NoTag /\ strip(row.title.text) # <<>>
    /\ row.artist # NoTag /\ strip(row.artist.text) # <<>>

RECURSIVE ListingsOf(_)
ListingsOf(rows) ==
    IF rows = <<>> THEN <<>>
    ELSE IF CompleteRow(Head(rows))
         THEN <<[link |-> Head(rows).href.v,
                 text |-> <<strip(Head(rows).title.text), strip(Head(rows).artist.text)>>]>>
              \o ListingsOf(Tail(rows))
         ELSE ListingsOf(Tail(rows))

\* C13: parse_music_data never raises; it returns exactly the entries that
\* have all of link, title and artist, in page order (an entry missing its
\* link, its title element or its artist element is skipped, the others are
\* still parsed), and the empty list for a page without a results container.
C13_ParseNeverRaises ==
    last.op = "parse_music_data"
    => /\ last.result.outcome = "return"
       /\ last.result.value = IF last.page.container THEN ListingsOf(last.page.rows)
                                                      ELSE <<>>

-----------------------------------------------------------------------------
(* extract_app_data: the window.appData object of a track page *)

\* how many <script type="text/javascript"> blocks a track page holds
MaxScripts == 3

\* a script block: script_tag.string is None (no text content), its text has
\* no "window.appData = {...};", the matched text is not valid JSON, or the
\* matched text is the JSON object data
ScriptNoText == [s |-> "none"]
ScriptNoAssign == [s |-> "text"]
ScriptBadJson == [s |-> "match", json |-> "invalid"]
ScriptJson(data) == [s |-> "match", json |-> "valid", data |-> data]

\* the parsed track page: its <div id="content-lrc"> (None when it has none)
\* and its script blocks in document order
TrackPage(lrc_div, script_tags) == [lrc_div |-> lrc_div, script_tags |-> script_tags]

PyNone == [py |-> "None"]
PyDict(dd) == [py |-> "dict", d |-> dd]

\* the loop of extract_app_data over script_tags
RECURSIVE extract_scripts(_, _)
extract_scripts(script_tags, lrc_content) ==
    IF script_tags = <<>> THEN Returns(PyNone)
    ELSE LET script_tag == Head(script_tags)
         IN \* re.search(pattern, None) raises TypeError
            IF script_tag.s = "none" THEN Raises("TypeError")
            ELSE IF script_tag.s = "text"
                 THEN extract_scripts(Tail(script_tags), lrc_content)
            \* except json.JSONDecodeError: return None
            ELSE IF script_tag.json = "invalid" THEN Returns(PyNone)
            ELSE Returns(PyDict(DictUpdate(script_tag.data, [lrc |-> lrc_content])))

extract_app_data(html_content) ==
    LET lrc_content == IF html_content.lrc_div = NoTag THEN ""
                       ELSE html_content.lrc_div.text
    IN extract_scripts(html_content.script_tags, lrc_content)

AppData42 == [play_id |-> "42", mp3_title |-> "song", mp3_author |-> "artist",
              mp3_cover |-> "cover.jpg"]
AppData43 == [play_id |-> "43"]

TrackScripts ==
    {ScriptNoText, ScriptNoAssign, ScriptBadJson, ScriptJson(AppData42), ScriptJson(AppData43)}

TrackPages ==
    {TrackPage(l, sc) : l \in {NoTag, Tag("la la")},
                        sc \in SeqsUpTo(TrackScripts, MaxScripts)}

\* a track page is about to be parsed
InitTrack ==
    /\ InitUpload
    /\ InitWriters
    /\ cache = <<>>
    /\ now = 0
    /\ written = <<>>
    /\ kreq1 = Request(GET, FullUrl(ReqSearch), None, None)
    /\ kreq2 = Request(GET, FullUrl(ReqSearch), None, None)
    /\ kid1 = NoKey
    /\ kid2 = NoKey
    /\ \E page \in TrackPages : last = [op |-> "track page", page |-> page]

\* one call of extract_app_data
ParseTrack ==
    /\ last.op = "track page"
    /\ last' = [op |-> "extract_app_data", page |-> last.page,
                result |-> extract_app_data(last.page)]
    /\ UNCHANGED <<cache, now, written, keyVars, uploadVars, writerVars>>

NextTrack == ParseTrack

SpecTrack == InitTrack /\ [][NextTrack]_vars

IsValidScript(b) == b.s = "match" /\ b.json = "valid"

\* the first block that yields a valid JSON object
FirstValid(script_tags) ==
    script_tags[CHOOSE i \in 1..Len(script_tags) :
                    /\ IsValidScript(script_tags[i])
                    /\ \A j \in 1..(i - 1) : ~IsValidScript(script_tags[j])]

\* C14: extract_app_data never raises; it returns the object of the first
\* script block that yields valid JSON, with the lyrics text added under
\* "lrc", whatever blocks (no text, no assignment, invalid JSON) come before
\* it; it returns None only when no block yields valid JSON.
C14_FirstValidScript ==
    last.op = "extract_app_data"
    => /\ last.result.outcome = "return"
       /\ IF \E i \in 1..Len(last.page.script_tags) :
                 IsValidScript(last.page.script_tags[i])
          THEN last.result.value =
                  PyDict(DictUpdate(FirstValid(last.page.script_tags).data,
                                    [lrc |-> IF last.page.lrc_div = NoTag THEN ""
                                             ELSE last.page.lrc_div.text]))
          ELSE last.result.value = PyNone

-----------------------------------------------------------------------------
(* api_music_gequbao_search: which listing is played *)

\* how many listings a results page gives
MaxListings == 3

LowerChar(c) ==
    CASE c = "A" -> "a" [] c = "J" -> "j" [] c = "S" -> "s" [] c = "Z" -> "z"
      [] OTHER -> c

\* str.lower()
lower(s) == [i \in 1..Len(s) |-> LowerChar(s[i])]

\* one element of the list parse_music_data returns
Sound(link, song_title, artist_name) == [link |-> link, text |-> <<song_title, artist_name>>]

\* a plausible slip: the keyword matching the top title is taken for an artist too
search_type_any_match(keyword, top_result) ==
    IF lower(keyword) = lower(top_result.text[2]) \/ lower(keyword) = lower(top_result.text[1])
    THEN "artist"
    ELSE "song"

\* step 2 of api_music_gequbao_search: the intent
search_type_of(keyword, top_result) ==
    IF lower(keyword) = lower(top_result.text[2]) THEN "artist"
    ELSE IF lower(keyword) = lower(top_result.text[1]) THEN "song"
    ELSE "song"

\* a plausible slip: the artist filter compares the names as written
artist_songs_exact_case(sounds, top_artist_name) ==
    SelectSeq(sounds, LAMBDA x : x.text[2] = top_artist_name)

\* artist_songs = [s for s in sounds if s["text"][1].lower() == top_artist_name.lower()]
artist_songs_of(sounds, top_artist_name) ==
    SelectSeq(sounds, LAMBDA x : lower(x.text[2]) = lower(top_artist_name))

\* step 3 of api_music_gequbao_search, for a non-empty sounds: the listings
\* selected_sound may be (random.choice gives any element of artist_songs)
selectable_sounds(keyword, sounds) ==
    LET top_result == sounds[1]
        artist_songs == artist_songs_of(sounds, top_result.text[2])
    IN IF search_type_of(keyword, top_result) = "artist"
       THEN IF artist_songs # <<>>
            THEN {artist_songs[i] : i \in 1..Len(artist_songs)}
            ELSE {top_result}
       ELSE {top_result}

ArtistJJ == <<"J", "J">>
ArtistLowerJJ == <<"j", "j">>
ArtistZ == <<"Z">>
TitleSong == <<"S", "o", "n", "g">>
TitleJJ == <<"j", "J">>

IntentSounds ==
    {Sound(l, t, a) : l \in {Link1, Link2}, t \in {TitleSong, TitleJJ},
                      a \in {ArtistJJ, ArtistLowerJJ, ArtistZ}}

\* an artist name in another case, a title, an "artist song" phrase
IntentKeywords == {<<"J", "j">>, <<"s", "o", "n", "g">>, <<"j", "j", " ", "s">>}

\* a keyword and the listings found for it
InitIntent ==
    /\ InitUpload
    /\ InitWriters
    /\ cache = <<>>
    /\ now = 0
    /\ written = <<>>
    /\ kreq1 = Request(GET, FullUrl(ReqSearch), None, None)
    /\ kreq2 = Request(GET, FullUrl(ReqSearch), None, None)
    /\ kid1 = NoKey
    /\ kid2 = NoKey
    /\ \E keyword \in IntentKeywords, sounds \in SeqsUpTo(IntentSounds, MaxListings) :
          /\ sounds # <<>>
          /\ last = [op |-> "sounds", keyword |-> keyword, sounds |-> sounds]

\* steps 2 and 3 of api_music_gequbao_search
SelectSound ==
    /\ last.op = "sounds"
    /\ \E selected_sound \in selectable_sounds(last.keyword, last.sounds) :
          last' = [op |-> "select", keyword |-> last.keyword, sounds |-> last.sounds,
                   search_type |-> search_type_of(last.keyword, last.sounds[1]),
                   selected_sound |-> selected_sound]
    /\ UNCHANGED <<cache, now, written, keyVars, uploadVars, writerVars>>

NextIntent == SelectSound

SpecIntent == InitIntent /\ [][NextIntent]_vars

\* the keyword is the top result's artist, case-insensitively
KeywordIsTopArtist == lower(last.keyword) = lower(last.sounds[1].text[2])

SameArtist(x, y) == lower(x.text[2]) = lower(y.text[2])

\* C16: when the keyword equals the top result's artist case-insensitively
\* (also when it equals the top title as well), the intent is artist-search:
\* the selected listing has the top result's artist (case-insensitively),
\* never another artist's, and every listing with that artist is a possible
\* outcome of the random choice.
C16_ArtistIntent ==
    /\ (last.op = "select" /\ KeywordIsTopArtist)
       => /\ last.search_type = "artist"
          /\ SameArtist(last.selected_sound, last.sounds[1])
          /\ \E i \in 1..Len(last.sounds) : last.sounds[i] = last.selected_sound
    /\ (last.op = "sounds" /\ KeywordIsTopArtist)
       => \A i \in 1..Len(last.sounds) :
             SameArtist(last.sounds[i], last.sounds[1])
             => last.sounds[i] \in selectable_sounds(last.keyword, last.sounds)

\* C16 witness: the keyword "Jj" found, among three listings, two of the top
\* artist (written "JJ" and "jj") and one of another; the second was selected
C16_Witness ==
    /\ last.op = "select"
    /\ KeywordIsTopArtist
    /\ Len(last.sounds) = 3
    /\ last.sounds[1].text[2] = ArtistJJ
    /\ last.sounds[2].text[2] = ArtistZ
    /\ last.sounds[3].text[2] = ArtistLowerJJ
    /\ last.sounds[3] # last.sounds[1]
    /\ last.selected_sound = last.sounds[3]

\* C17: when the keyword does not equal the top result's artist
\* case-insensitively (title match, "artist song" phrase, anything else), the
\* intent is song-search and the first listing is selected, unchanged.
C17_SongIntent ==
    (last.op = "select" /\ ~KeywordIsTopArtist)
    => /\ last.search_type = "song"
       /\ last.selected_sound = last.sounds[1]

\* C17 witness: the keyword equals the top title, other listings of the top
\* artist follow, and the top listing was selected
C17_Witness ==
    /\ last.op = "select"
    /\ ~KeywordIsTopArtist
    /\ lower(last.keyword) = lower(last.sounds[1].text[1])
    /\ Len(last.sounds) >= 2
    /\ SameArtist(last.sounds[2], last.sounds[1])
    /\ last.sounds[2] # last.sounds[1]
    /\ last.selected_sound = last.sounds[1]

-----------------------------------------------------------------------------
(* Corrupt cache files and failed cache writes *)

C19_WriteFailureHidden ==
    /\ \A r \in FetchRequests, response_data \in SetDatas,
          fault \in StorageFaults \ {"none"} :
          cache_set(cache, now, FullUrl(r), response_data, r.method, r.data,
                    r.json_data, fault).ok = FALSE
    /\ (LastFetch /\ last.net.kind = "response" /\ ~raise_for_status(last.net.resp))
       => /\ last.outcome = "return"
          /\ last.response = last.net.resp
          /\ last.saved \in {"yes", "no", "failed"}

\* C19 witness: the network call succeeded, the cache write failed, and the
\* fetch returned the response
C19_Witness ==
    /\ LastFetch
    /\ last.use_cache
    /\ last.net.kind = "response"
    /\ last.saved = "failed"
    /\ last.outcome = "return"
    /\ last.response = last.net.resp

-----------------------------------------------------------------------------
(* One search by keyword: search_sound, play_sound, get_play_url *)

\* urllib.parse.quote, for the characters of the model's keywords
QuoteChar(c) == IF c = " " THEN <<"%", "2", "0">> ELSE <<c>>

RECURSIVE quote(_)
quote(s) == IF s = <<>> THEN <<>> ELSE QuoteChar(Head(s)) \o quote(Tail(s))

PyList(v) == [py |-> "list", v |-> v]

\* the results pages the server may send for the keyword, as text
HtmlNoResults == "results page: no rows"
HtmlOneSong == "results page: Song by Z"
HtmlTwoByArtist == "results page: Song by A, jJ by a"

\* BeautifulSoup(html_content, "html.parser") of a results page; any other
\* text has no div.card-text
soup_listing(text) ==
    CASE text = HtmlNoResults -> Page(TRUE, <<>>)
      [] text = HtmlOneSong ->
            Page(TRUE, <<Row(Str(Link1), Tag(TitleSong), Tag(ArtistZ))>>)
      [] text = HtmlTwoByArtist ->
            Page(TRUE, <<Row(Str(Link1), Tag(TitleSong), Tag(<<"A">>)),
                         Row(Str(Link2), Tag(TitleJJ), Tag(<<"a">>))>>)
      [] OTHER -> Page(FALSE, <<>>)

\* the track pages the server may send, as text
HtmlTrack == "track page: appData play_id 1"
HtmlTrackBare == "track page: no appData"

AppData1 == [play_id |-> <<"1">>, mp3_title |-> "song", mp3_author |-> "artist"]

\* BeautifulSoup(html_content, "html.parser") of a track page
soup_track(text) ==
    CASE text = HtmlTrack -> TrackPage(Tag("la la"), <<ScriptNoAssign, ScriptJson(AppData1)>>)
      [] OTHER -> TrackPage(NoTag, <<ScriptNoAssign>>)

\* the body of a play-url answer, as text
JsonPlayOk == "{\"code\": 1, \"data\": {\"url\": \"http://cdn/1.mp3\"}}"

\* response.json()
response_json(text) ==
    CASE text = JsonPlayOk ->
            Returns(PyDict([code |-> 1, data |-> [url |-> "http://cdn/1.mp3"]]))
      [] OTHER -> Raises("JSONDecodeError")

Html200(text) == Answer(Response(200, HeadersUtf8, Encode(text, "utf-8"), "utf-8"))

\* what the network does for the results page, the track page and the play url
SearchNets ==
    {Transport, Answer(Resp404), Html200(HtmlNoResults), Html200(HtmlOneSong),
     Html200(HtmlTwoByArtist)}
TrackNets == {Transport, Html200(HtmlTrack), Html200(HtmlTrackBare)}
PlayNets == {Transport, Answer(Resp404), Html200(JsonPlayOk)}

\* what the storage does when search_sound's response is saved
SearchFaults == {"none", "write"}

\* what a caller of gequbao_request in this module makes of its outcome res:
\* `if response and response.status_code == 200: return parse(response.text)`
fetch_result(step, path, res, parsed) ==
    [cache |-> res.cache,
     fetch |-> [step |-> step, path |-> path, net |-> res.net,
                outcome |-> res.outcome, response |-> res.response],
     result |-> IF res.outcome = "raise" THEN Raises("Exception")
                ELSE IF res.response.status_code # 200 THEN Returns(PyNone)
                ELSE parsed]

\* parse_music_data(response.text), as search_sound returns it
listing_of(response) ==
    CHOOSE r \in {IF parsed.outcome = "raise" THEN parsed ELSE Returns(PyList(parsed.value)) :
                    parsed \in {parse_music_data(soup_listing(response_text(response)))}} :
        TRUE

\* search_sound: the cache it leaves, its fetch, and what it returns or raises
search_sound(c, t, keyword, net, fault) ==
    CHOOSE s \in {fetch_result("search", <<"/", "s", "/">> \o quote(keyword), res,
                               listing_of(res.response)) :
                    res \in {gequbao_request(c, t, <<"/", "s", "/">> \o quote(keyword), GET,
                                             None, None, TRUE, None, net, fault)}} : TRUE

\* a plausible slip: the track page is fetched through the cache
play_sound_cached(c, t, link, net) ==
    CHOOSE s \in {fetch_result("track", link, res,
                               extract_app_data(soup_track(response_text(res.response)))) :
                    res \in {gequbao_request(c, t, link, GET, None, None, TRUE, None,
                                             net, "none")}} : TRUE

\* play_sound
play_sound(c, t, link, net) ==
    CHOOSE s \in {fetch_result("track", link, res,
                               extract_app_data(soup_track(response_text(res.response)))) :
                    res \in {gequbao_request(c, t, link, GET, None, None, FALSE, None,
                                             net, "none")}} : TRUE

\* get_play_url
get_play_url(c, t, play_id, net) ==
    CHOOSE s \in {fetch_result("play-url", PathPlayUrl, res,
                               response_json(response_text(res.response))) :
                    res \in {gequbao_request(c, t, PathPlayUrl, POST,
                                             Dict(<<Item(<<"i", "d">>, Str(play_id))>>),
                                             None, FALSE, None, net, "none")}} : TRUE

\* ValueError(f"... '{keyword}' ...")
NoResultsError(keyword) == [outcome |-> "raise", error |-> "ValueError", keyword |-> keyword]

\* a plausible slip: `if sounds is None`
no_sounds_none_only(sounds) == sounds = PyNone

\* `if not sounds`
no_sounds(sounds) == sounds = PyNone \/ sounds = PyList(<<>>)

\* the call goes on to its next step
Continue == [outcome |-> "continue"]

\* api_music_gequbao_search after search_sound: how the call ends there, if
\* it does
after_search_sound(sounds, keyword) ==
    IF sounds.outcome = "raise" THEN sounds
    ELSE IF no_sounds(sounds.value) THEN NoResultsError(keyword)
    \* top_result = sounds[0]
    ELSE IF sounds.value = PyNone THEN Raises("TypeError")
    ELSE IF sounds.value.v = <<>> THEN Raises("IndexError")
    ELSE Continue

\* api_music_gequbao_search after play_sound: `if sound_info is None: return
\* None`, then sound_info["play_id"]
after_play_sound(sound_info) ==
    IF sound_info.outcome = "raise" THEN sound_info
    ELSE IF sound_info.value = PyNone THEN Returns(PyNone)
    ELSE IF "play_id" \notin DOMAIN sound_info.value.d THEN Raises("KeyError")
    ELSE Continue

\* api_music_gequbao_search after get_play_url: return sound_info, play_url
after_get_play_url(sound_info, play_url) ==
    IF play_url.outcome = "raise" THEN play_url
    ELSE Returns([sound_info |-> sound_info, play_url |-> play_url.value])

\* what search_music gives its caller for an outcome of
\* api_music_gequbao_search: the call is made outside the try block, so an
\* exception of it leaves search_music as it is
search_music_outcome(api) ==
    IF api.outcome = "raise" THEN api
    ELSE IF api.value = PyNone THEN search_music(ApiNone)
    ELSE search_music(ApiTuple(api.value.sound_info.d,
                               IF api.value.play_url = PyNone THEN PlayNone
                               ELSE PlayDict(api.value.play_url.d)))

LookupKeywords == {<<"a">>}

LookupKeys == {IdentityOf(r) : r \in LookupRequests}

InitLookup ==
    /\ cache = [k \in LookupKeys |-> Absent]
    /\ now = 0
    /\ last = [op |-> "none"]
    /\ written = [k \in LookupKeys |-> NoWrite]
    /\ kreq1 = Request(GET, FullUrl(ReqSearch), None, None)
    /\ kreq2 = Request(GET, FullUrl(ReqSearch), None, None)
    /\ kid1 = NoKey
    /\ kid2 = NoKey
    /\ InitUpload
    /\ InitWriters

\* gequbao_request called directly, with its default use_cache=True, for a
\* track page or the play url
\* api_music_gequbao_search is between two of its steps
Searching == last.op = "search" /\ last.pc # "done"

LookupFetch ==
    /\ ~Searching
    /\ \E w \in {<<ReqTrack1, Html200(HtmlTrack)>>, <<ReqPlayUrl, Html200(JsonPlayOk)>>} :
          \E res \in {gequbao_request(cache, now, w[1].path, w[1].method, w[1].data,
                                      w[1].json_data, TRUE, None, w[2], "none")},
             key \in {IdentityOf(w[1])} :
             /\ cache' = res.cache
             /\ last' = [op |-> "fetch", req |-> w[1], use_cache |-> TRUE,
                         cache_expiry |-> None, key |-> key, pre |-> cache[key],
                         net |-> res.net, saved |-> res.saved,
                         outcome |-> res.outcome, response |-> res.response]
    /\ UNCHANGED <<now, written, keyVars, uploadVars, writerVars>>

\* the state of one call of api_music_gequbao_search: the step it is at, what
\* it has fetched and found so far, how it ended, and what search_music then
\* gives its caller
SearchState(pc, keyword, before, fetches, sounds, selected_sound, sound_info, result) ==
    [op |-> "search", pc |-> pc, keyword |-> keyword, before |-> before,
     fetches |-> fetches, sounds |-> sounds, selected_sound |-> selected_sound,
     sound_info |-> sound_info, result |-> result,
     tool |-> IF pc = "done" THEN search_music_outcome(result) ELSE PyNone]

\* steps 1 to 3 of api_music_gequbao_search: search_sound, the intent, the
\* selected listing
ApiSearch ==
    /\ ~Searching
    /\ \E keyword \in LookupKeywords, net1 \in SearchNets, fault \in SearchFaults :
          \E s \in {search_sound(cache, now, keyword, net1, fault)} :
             \E end \in {after_search_sound(s.result, keyword)} :
                /\ cache' = s.cache
                /\ IF end = Continue
                   THEN \E selected_sound \in selectable_sounds(keyword, s.result.value.v) :
                           last' = SearchState("play_sound", keyword, cache, <<s.fetch>>,
                                               s.result, selected_sound, PyNone, PyNone)
                   ELSE last' = SearchState("done", keyword, cache, <<s.fetch>>,
                                            s.result, PyNone, PyNone, end)
    /\ UNCHANGED <<now, written, keyVars, uploadVars, writerVars>>

\* step 4 of api_music_gequbao_search: play_sound(selected_sound["link"])
PlaySound ==
    /\ last.op = "search"
    /\ last.pc = "play_sound"
    /\ \E net2 \in TrackNets :
          \E p \in {play_sound(cache, now, last.selected_sound.link, net2)} :
             \E end \in {after_play_sound(p.result)} :
                /\ cache' = p.cache
                /\ last' = IF end = Continue
                           THEN SearchState("get_play_url", last.keyword, last.before,
                                            Append(last.fetches, p.fetch), last.sounds,
                                            last.selected_sound, p.result.value, PyNone)
                           ELSE SearchState("done", last.keyword, last.before,
                                            Append(last.fetches, p.fetch), last.sounds,
                                            last.selected_sound, PyNone, end)
    /\ UNCHANGED <<now, written, keyVars, uploadVars, writerVars>>

\* step 4 of api_music_gequbao_search: get_play_url(sound_info["play_id"])
GetPlayUrl ==
    /\ last.op = "search"
    /\ last.pc = "get_play_url"
    /\ \E net3 \in PlayNets :
          \E u \in {get_play_url(cache, now, last.sound_info.d.play_id, net3)} :
             /\ cache' = u.cache
             /\ last' = SearchState("done", last.keyword, last.before,
                                    Append(last.fetches, u.fetch), last.sounds,
                                    last.selected_sound, last.sound_info,
                                    after_get_play_url(last.sound_info, u.result))
    /\ UNCHANGED <<now, written, keyVars, uploadVars, writerVars>>

\* time passes between two searches
LookupTick == ~Searching /\ Tick

NextLookup == LookupTick \/ LookupFetch \/ ApiSearch \/ PlaySound \/ GetPlayUrl

SpecLookup == InitLookup /\ [][NextLookup]_vars

LastSearch == last.op = "search"

\* C15: when the search for the keyword yields zero listings, the operation
\* raises the no-results error (it returns no null or empty selection): it
\* makes no track-page fetch and no play-url fetch, does not search again, and
\* the error reaches the caller of search_music with its message intact.
C15_NoResultsRaises ==
    (LastSearch /\ last.sounds = Returns(PyList(<<>>)))
    => /\ last.pc = "done"
       /\ last.result = NoResultsError(last.keyword)
       /\ Len(last.fetches) = 1
       /\ last.fetches[1].step = "search"
       /\ last.tool = NoResultsError(last.keyword)

\* C15 witness: the results page fetched from the network has no rows, and
\* the search raised
C15_Witness ==
    /\ LastSearch
    /\ last.sounds = Returns(PyList(<<>>))
    /\ last.fetches[1].net = Html200(HtmlNoResults)
    /\ last.pc = "done"
    /\ last.result.outcome = "raise"

\* C20: during one search by keyword the track-page fetch and the play-url
\* fetch are live: each makes its network call even when the cache holds an
\* entry for the same request, gives what the network gave (an error when the
\* call fails, whatever the cache holds), and leaves the cache alone; the only
\* identity the operation creates or overwrites is the results page's.
C20_TrackAndPlayUrlLive ==
    LastSearch
    => /\ \A i \in 1..Len(last.fetches) :
             last.fetches[i].step \in {"track", "play-url"}
             => /\ last.fetches[i].net # NotCalled
                /\ last.fetches[i].net = Transport => last.fetches[i].outcome = "raise"
                /\ last.fetches[i].outcome = "return"
                   => last.fetches[i].response = last.fetches[i].net.resp
       /\ \A k \in LookupKeys :
             cache[k] # last.before[k]
             => k = cache_key_of(base_url \o last.fetches[1].path, GET, None, None)

\* C20 witness: the cache held entries for the track page and for the play
\* url, and the search fetched both from the network and returned
C20_Witness ==
    /\ LastSearch
    /\ last.pc = "done"
    /\ Len(last.fetches) = 3
    /\ last.before[IdentityOf(ReqTrack1)].f = "json"
    /\ last.before[IdentityOf(ReqPlayUrl)].f = "json"
    /\ last.fetches[2].path = Link1
    /\ last.fetches[2].net.kind = "response"
    /\ last.fetches[3].net.kind = "response"
    /\ last.result.outcome = "return"

-----------------------------------------------------------------------------
(* The life of a cache entry: get, set, fetch, clear, clear_expired *)

\* RequestCache.clear on the directory c: every *.json file is unlinked and
\* counted
clear(c) ==
    [cache |-> [k \in DOMAIN c |-> Absent],
     count |-> Cardinality({k \in DOMAIN c : c[k] # Absent})]

\* one call of RequestCache.clear
Clear ==
    \E res \in {clear(cache)} :
       /\ cache' = res.cache
       /\ last' = [op |-> "clear", before |-> cache, count |-> res.count]
       /\ written' = [k \in DOMAIN written |-> NoWrite]
       /\ UNCHANGED <<now, keyVars, uploadVars, writerVars>>

\* every operation on the cache directory, at one time of day
NextCache == CacheGet \/ CacheSet \/ Fetch \/ ClearExpired \/ Clear

SpecCache == Init /\ [][NextCache]_vars

\* the step is a call of clear or clear_expired
Eviction == last'.op \in {"clear", "clear_expired"}

\* C21: across get, set and fetch an entry is removed only by clear or
\* clear_expired: a get, and a fetch answered by its lookup, leave every file
\* as it was, and an identity that has a readable entry still has a readable
\* entry after every step that is no eviction.
C21_RemovedOnlyByEviction ==
    [][/\ last'.op = "get" => cache' = cache
       /\ (last'.op = "fetch" /\ last'.net = NotCalled) => cache' = cache
       /\ \A k \in CacheKeys :
             (cache[k].f = "json" /\ ~Eviction) => cache'[k].f = "json"]_vars

-----------------------------------------------------------------------------
(* Threads inside RequestCache.set at the same time *)

\* the threads that call the cache
Threads == {1, 2}

\* a plausible slip: every key is given the same file
get_cache_file_path_one_file(cache_key) == NoKey

\* _get_cache_file_path: self.cache_dir / f"{cache_key}.json"
get_cache_file_path(cache_key) == cache_key

CachePaths == {get_cache_file_path(k) : k \in CacheKeys}

\* a file as the operating system holds it: its text is a sequence of blocks,
\* each written by one write call
NoFile == [exists |-> FALSE, text |-> <<>>]
OnDisk(text) == [exists |-> TRUE, text |-> text]

\* a block no thread wrote: the gap left by a write beyond the end of the file
Hole == [of |-> "hole"]

\* responses whose bodies differ in length
RespShort == Response(200, HeadersUtf8, Encode(<<"s">>, "utf-8"), "utf-8")
RespLong == Response(200, HeadersUtf8, Encode(<<"l", "l">>, "utf-8"), "utf-8")

WriterDatas == {response_data_of(RespShort), response_data_of(RespLong)}

\* json.dump(cache_data, f, ensure_ascii=False, indent=2): the text of the
\* document, block by block; it is the longer the longer the content is
json_dump(cache_data) ==
    [i \in 1..(1 + Len(cache_data.content)) |-> [of |-> cache_data, block |-> i]]

\* json.load: the document, when the text is exactly the text of one document
json_load(text) ==
    IF text = <<>> THEN Corrupt
    ELSE IF text[1] = Hole THEN Corrupt
    ELSE IF text = json_dump(text[1].of) THEN File(text[1].of)
    ELSE Corrupt

\* what get finds at cache_file: cache_file.exists(), then open and json.load
file_of(entry) == IF entry.exists THEN json_load(entry.text) ELSE Absent

\* the cache directory as get sees it
directory(dk) == [k \in CacheKeys |-> file_of(dk[get_cache_file_path(k)])]

\* write(seg) through a file object whose position is off
write_at(text, off, seg) ==
    [i \in 1..(IF Len(text) > off + Len(seg) THEN Len(text) ELSE off + Len(seg)) |->
        IF i > off /\ i <= off + Len(seg) THEN seg[i - off]
        ELSE IF i <= Len(text) THEN text[i]
        ELSE Hole]

\* a thread that is not inside set
Idle == [pc |-> "idle"]

InitWriting ==
    /\ cache = [k \in CacheKeys |-> Absent]
    /\ now = 0
    /\ last = [op |-> "none"]
    /\ written = [k \in CacheKeys |-> NoWrite]
    /\ kreq1 = Request(GET, FullUrl(ReqSearch), None, None)
    /\ kreq2 = Request(GET, FullUrl(ReqSearch), None, None)
    /\ kid1 = NoKey
    /\ kid2 = NoKey
    /\ InitUpload
    /\ disk = [p \in CachePaths |-> NoFile]
    /\ writers = [th \in Threads |-> Idle]

\* set, up to open(cache_file, 'w'): the key, the document, and the file
\* created or truncated
SetOpen ==
    /\ \E th \in Threads, r \in FetchRequests, response_data \in WriterDatas :
          /\ writers[th].pc = "idle"
          /\ \E cache_key \in {IdentityOf(r)},
                cache_data \in {DictUpdate([timestamp |-> now, url |-> FullUrl(r),
                                            method |-> upper(r.method)], response_data)} :
                /\ disk' = [disk EXCEPT ![get_cache_file_path(cache_key)] = OnDisk(<<>>)]
                /\ writers' = [writers EXCEPT ![th] =
                                  [pc |-> "open", key |-> cache_key,
                                   cache_file |-> get_cache_file_path(cache_key),
                                   cache_data |-> cache_data,
                                   text |-> json_dump(cache_data), off |-> 0]]
          /\ last' = [op |-> "set: open", thread |-> th]
    /\ cache' = directory(disk')
    /\ UNCHANGED <<now, written, keyVars, uploadVars>>

\* set, inside json.dump: the file object hands its buffer to the operating
\* system, at the position of this thread's file object
SetFlush ==
    /\ \E th \in Threads :
          /\ writers[th].pc = "open"
          /\ \E n \in 1..(Len(writers[th].text) - writers[th].off) :
                /\ disk' = [disk EXCEPT ![writers[th].cache_file] =
                               OnDisk(write_at(disk[writers[th].cache_file].text,
                                               writers[th].off,
                                               SubSeq(writers[th].text, writers[th].off + 1,
                                                      writers[th].off + n)))]
                /\ writers' = [writers EXCEPT ![th].off = writers[th].off + n]
          /\ last' = [op |-> "set: write", thread |-> th]
    /\ cache' = directory(disk')
    /\ UNCHANGED <<now, written, keyVars, uploadVars>>

\* set, leaving the with block once everything is written: return True
SetClose ==
    /\ \E th \in Threads :
          /\ writers[th].pc = "open"
          /\ writers[th].off = Len(writers[th].text)
          /\ writers' = [writers EXCEPT ![th].pc = "done"]
          /\ last' = [op |-> "set: return", thread |-> th]
    /\ UNCHANGED <<cache, disk, now, written, keyVars, uploadVars>>

\* two threads in set, and get called at any moment
NextWriting == SetOpen \/ SetFlush \/ SetClose \/ CacheGet

SpecWriting == InitWriting /\ [][NextWriting]_vars

\* C22: operations on different identities do not interfere: a step of a set
\* for identity A leaves the entry, or the absence of an entry, of every other
\* identity B as it was, and what get gives for B is the same before and after
\* the step.
C22_DifferentIdentitiesApart ==
    [][\A th \in Threads :
          writers'[th] # writers[th]
          => \A r \in FetchRequests :
                IdentityOf(r) # writers'[th].key
                => /\ cache'[IdentityOf(r)] = cache[IdentityOf(r)]
                   /\ \A cache_expiry \in Expiries :
                         cache_get(cache', now, FullUrl(r), r.method, r.data,
                                   r.json_data, cache_expiry)
                         = cache_get(cache, now, FullUrl(r), r.method, r.data,
                                     r.json_data, cache_expiry)]_vars

\* C22 witness: one thread has stored its entry while the other is in the
\* middle of writing the file of another identity
C22_Witness ==
    /\ writers[1].pc = "done"
    /\ writers[2].pc = "open"
    /\ writers[2].off > 0
    /\ writers[2].off < Len(writers[2].text)
    /\ writers[1].key # writers[2].key
    /\ cache[writers[1].key] = File(writers[1].cache_data)
    /\ cache[writers[2].key] = Corrupt

\* C23: once two concurrent set calls for one identity have both returned,
\* the stored entry parses and is exactly one of the two documents written.
C23_LastWriterWins ==
    (/\ writers[1].pc = "done"
     /\ writers[2].pc = "done"
     /\ writers[1].key = writers[2].key)
    => cache[writers[1].key] \in {File(writers[1].cache_data), File(writers[2].cache_data)}

-----------------------------------------------------------------------------
(* The upload worker drains the queue *)

\* the worker thread is a daemon thread that is scheduled again and again:
\* a turn of its loop that can be taken is taken
SpecSearchFair == InitSearch /\ [][NextSearch]_vars /\ WF_vars(Worker)

\* C24: the worker takes the records in the order they were enqueued, hands
\* each to save_music once, and goes on after a save that failed: every record
\* put on the queue is eventually processed, whatever happened to the records
\* before it.
C24_WorkerDrainsQueue ==
    /\ [](\A j \in 1..Len(processed) : processed[j].ref = j)
    /\ \A i \in 1..MaxSearches : (Len(records) >= i) ~> (Len(processed) >= i)

\* C24 witness: saving the first record failed and the second record was
\* processed after it
C24_Witness ==
    /\ Len(processed) = 2
    /\ ~processed[1].ok
    /\ processed[2].ok
    /\ music_queue = <<>>

-----------------------------------------------------------------------------
(* The hand-off to the upload queue *)

\* the calls of search_music so far that returned a success payload
Returned == {i \in 1..Len(replies) : replies[i].kind = "return"}

\* the records taken by the worker so far, then the records still queued
HandedOff == [j \in 1..Len(processed) |-> processed[j].ref] \o music_queue

\* C25: each search_music call that returned a success payload has put its
\* record on the queue exactly once, a call that ended in an error has put
\* nothing, and the call does not wait for the worker: it can be made, and
\* returns, whatever the worker has or has not done.
C25_HandOffOncePerSuccess ==
    /\ Len(records) = Cardinality(Returned)
    /\ HandedOff = [i \in 1..Len(records) |-> i]
    /\ \A i \in Returned :
          /\ replies[i].ref \in 1..Len(records)
          /\ \A j \in Returned : replies[j].ref = replies[i].ref => j = i
    /\ Len(replies) < MaxSearches => ENABLED SearchMusic

\* C25 witness: one call ended in an error and one returned a success
\* payload; the one record is on the queue and the worker has taken nothing
C25_Witness ==
    /\ Len(replies) = 2
    /\ Cardinality(Returned) = 1
    /\ music_queue = <<1>>
    /\ processed = <<>>

-----------------------------------------------------------------------------
(* A stored response served again *)

\* the last call was a fetch with use_cache whose network call gave a 2xx
\* response and whose cache write went through
StoredByLastFetch ==
    /\ last.op = "fetch"
    /\ last.use_cache
    /\ last.net.kind = "response"
    /\ Is2xx(last.net.resp.status_code)
    /\ last.saved = "yes"

\* C26: after a fetch with use_cache whose network call gave a 2xx response
\* and whose cache write did not fail, the next fetch of the same request with
\* use_cache, within maxAge, makes no network call and returns the status code
\* and the body of that network response; and every fetch whose network call
\* succeeds and is stored overwrites the entry and resets its age.
C26_StoredThenServed ==
    [][/\ (/\ StoredByLastFetch
           /\ last'.op = "fetch"
           /\ last'.req = last.req
           /\ last'.use_cache
           /\ now' - cache[last.key].d.timestamp <= MaxAge(last'.cache_expiry))
          => /\ last'.net = NotCalled
             /\ last'.outcome = "return"
             /\ last'.response.status_code = last.net.resp.status_code
             /\ response_text(last'.response) = response_text(last.net.resp)
       /\ StoredByLastFetch'
          => /\ cache'[last'.key].f = "json"
             /\ cache'[last'.key].d.timestamp = now'
             /\ cache'[last'.key].d.content = response_text(last'.net.resp)]_vars

-----------------------------------------------------------------------------
(* A stale entry served as fallback *)

\* the last call was a fetch with use_cache that found a stale entry, whose
\* network call failed, and that returned the stale entry
FallbackServed ==
    /\ last.op = "fetch"
    /\ last.use_cache
    /\ PreStale
    /\ \/ last.net = Transport
       \/ last.net.kind = "response" /\ raise_for_status(last.net.resp)
    /\ last.outcome = "return"

\* C27: serving a stale entry as fallback leaves the cache as it was: the
\* entry keeps its timestamp and content and stays stale, and a fetch of the
\* same request with the same maxAge that follows makes the network call
\* again, falling back on the same entry when that call fails too.
C27_FallbackLeavesEntryStale ==
    [][/\ FallbackServed'
          => /\ cache' = cache
             /\ now' - cache'[last'.key].d.timestamp > MaxAge(last'.cache_expiry)
       /\ (/\ FallbackServed
           /\ last'.op = "fetch"
           /\ last'.req = last.req
           /\ last'.use_cache
           /\ last'.cache_expiry = last.cache_expiry)
          => /\ last'.net # NotCalled
             /\ last'.net = Transport
                => /\ last'.outcome = "return"
                   /\ Serves(last'.response, last.pre.d)]_vars

\* C27 witness: a stale entry was served as fallback and is still there, as
\* stale as before
C27_Witness ==
    /\ FallbackServed
    /\ last.net = Transport
    /\ cache[last.key] = last.pre
    /\ now - cache[last.key].d.timestamp > MaxAge(last.cache_expiry)

-----------------------------------------------------------------------------
(* A set that fails *)

\* C28: a set that returns False leaves the cache as it was: the entry stored
\* before for the identity is still there and get still gives its content, so
\* a stale entry can still serve as fallback after an overwrite that failed.
C28_FailedSetKeepsEntry ==
    (last.op = "set" /\ ~last.ok /\ last.pre.f = "json")
    => /\ cache[last.key] = last.pre
       /\ \E g \in {cache_get(cache, now, FullUrl(last.req), last.req.method,
                                 last.req.data, last.req.json_data, None)} :
                /\ g.r = "dict"
                /\ g.d.content = last.pre.d.content
                /\ g.d.timestamp = last.pre.d.timestamp

====
